---------------------------- MODULE Spec2Model ----------------------------
(***************************************************************************)
(* Market structure monitor: the per-instrument polling loop               *)
(* (MarketStructureMonitor.run), its concurrent midnight reset task        *)
(* (wait_until_next_day) and the notifier (DiscordNotifier.send_message).  *)
(*                                                                         *)
(* One state of the model is one point at which the asyncio event loop is  *)
(* idle: every coroutine is suspended in an await.  get_market_data,       *)
(* detect_advanced_swing_points and analyze_advanced_market_structure      *)
(* contain no await, so a polling cycle runs from the end of its sleep to  *)
(* its first webhook post (or to its next sleep) as one step.              *)
(***************************************************************************)
EXTENDS Integers, Sequences, FiniteSets

\* ------------------------------------------------------------ bounds ----
\* The consecutive-error counter is capped in the guard of the failing path.
MaxErrors == 7
\* Longest list os.getenv('DISCORD_BACKUP_WEBHOOKS').split(',') considered.
MaxBackups == 2
\* The observation window on a run of uptrend-qualifying cycles saturates here.
MaxStreak == 3
MaxErrorsConcurrent == 1   \* the same cap where two monitors run together
MaxTook == 1      \* longest time one step of a cycle takes, in clock units
BasePrice == 60   \* the close of the first bar of a generated frame
AtrMean == 2      \* df['ATR'].mean() of a generated frame

\* ------------------------------------------------- program constants ----
PollSeconds == 900
BackoffBase == 60
BackoffCap == 900
MinBars == 20
StatusNoContent == 204
WindowCap == 10         \* is_swing_high, line 85: min(10, len(df) // 2)
VolatilityNum == 3      \* volatility_factor = 1.5 = 3 / 2
VolatilityDen == 2
StrengthNum == 3        \* trend_strength_threshold = 0.75 = 3 / 4
StrengthDen == 4

\* Python's None for a structure; the two verdicts of the classifier.
None == "None"
UPTREND == "UPTREND"
DOWNTREND == "DOWNTREND"
Definite == {UPTREND, DOWNTREND}

Min(a, b) == IF a <= b THEN a ELSE b

VARIABLES
  \* ---- configuration, fixed once the service has started
  enabled,             \* notification_config['discord']['enabled']
  backup_webhooks,     \* DiscordNotifier.backup_webhooks
  \* ---- MarketStructureMonitor, one entry per monitored symbol
  previous_structure,  \* self.previous_structure
  consecutive_errors,  \* run(): consecutive_errors
  pc,                  \* where run() is suspended
  wait_time,           \* argument of the asyncio.sleep run() is suspended in
  current_structure,   \* run(): current_structure, held across the send
  \* ---- DiscordNotifier.send_message, one call in flight per monitor
  webhook_index,       \* position in webhooks_to_try of the post in flight
  discord_success,     \* send_message(): discord_success
  attempts,            \* observation: the posts made by the current/last send
  email_result,        \* observation: what send_email_via_resend returned
  send_result,         \* observation: what send_message returned
  \* ---- observations of the last polling cycle
  cycle,               \* its input, the state it started from, its outcome
  streak,              \* the current run of uptrend-qualifying cycles
  reset_since_tick,    \* the midnight reset fired after the cycle began
  last_step,           \* the handler that ran last, and for which monitor
  \* ---- used by the timed and the market-data specifications only
  timing,              \* wall clock and age of the fetched series, per monitor
  analysis,            \* the concrete frame a cycle reads, and its labels
  \* ---- used by the specification of the alert history only
  alerts               \* the latest alert since the last reset, per monitor

vars == <<enabled, backup_webhooks, previous_structure, consecutive_errors, pc,
          wait_time, current_structure, webhook_index, discord_success,
          attempts, email_result, send_result, cycle, streak, reset_since_tick,
          last_step, timing, analysis, alerts>>

Monitors == DOMAIN pc


\* ------------------------------------------------------ market data ----
\* What one cycle meets, abstracted to the facts the code branches on:
\*   fetch_error      ticker.history / the indicator columns raise (line 41)
\*   bars             len(df)
\*   detect_error     the swing labelling raises (line 79)
\*   swing_highs      len(df[df['Swing_High'] == 1]) > 0, same for lows
\*   trend            "up": uptrend_conditions, "down": downtrend_conditions
\*                    (they exclude each other: last_close > / < last_ema_50)
\*   analyze_error    the classification raises (line 156)
BarCounts == {MinBars - 1, MinBars}

AllInputs ==
  [fetch_error : BOOLEAN, bars : BarCounts, detect_error : BOOLEAN,
   swing_highs : BOOLEAN, swing_lows : BOOLEAN,
   trend : {"up", "down", "none"}, analyze_error : BOOLEAN]

\* One representative per behaviour: the fields a failed stage never reads
\* are fixed.
TickInputs ==
  {i \in AllInputs :
     /\ i.fetch_error => (i.bars = MinBars /\ ~i.detect_error)
     /\ (i.fetch_error \/ i.bars < MinBars) => ~i.detect_error
     /\ (i.fetch_error \/ i.bars < MinBars \/ i.detect_error)
          => (~i.swing_highs /\ ~i.swing_lows /\ i.trend = "none"
              /\ ~i.analyze_error)
     /\ i.analyze_error => (i.swing_highs /\ i.swing_lows /\ i.trend = "none")
     /\ (~i.swing_highs \/ ~i.swing_lows) => i.trend = "none"}

\* Python's None for a DataFrame.
NoDf == [missing |-> TRUE]

\* ---------------------------------------------------- concrete frames ----
\* A frame as get_market_data returns it, with integer prices:
\*   labels   what the rows are labelled with: "position" (0, 1, 2, ...) or
\*            "timestamp" (the DatetimeIndex that ticker.history returns)
\*   bars     len(df)
\*   High, Low, Close, EMA_50     the columns, as functions of 0..bars-1
\*   EMA_200_last, ATR_last       df['EMA_200'].iloc[-1], df['ATR'].iloc[-1]
\*   ATR_mean                     df['ATR'].mean()
\* The frames explored are ramps of slope -1, 0 or 1 with a bar range of 2,
\* a spike in the highs of bars 10 and 11, a dip in the low of bar 11, a
\* jump in the last close, and the averages at an offset from the ramp
\* (EMA_200 twice as far as EMA_50).
Lengths == {MinBars - 1, MinBars, 2 * WindowCap + 1, 2 * WindowCap + 3}
Slopes == {-1, 0, 1}
Spikes == {0, 2, 12}
Dips == {0, 12}
Jumps == {-15, 0, 15}
EmaOffsets == {-16, -4, 4, 16}
AtrLasts == {AtrMean, 10 * AtrMean}

MakeFrame(n, labels, slope, spike10, spike11, dip11, jump, off, atr_last) ==
  LET ramp(k)  == BasePrice + slope * k
      close(k) == ramp(k) + (IF k = n - 1 THEN jump ELSE 0)
  IN  [labels |-> labels,
       bars |-> n,
       Close |-> [k \in 0..(n - 1) |-> close(k)],
       High |-> [k \in 0..(n - 1) |->
                  close(k) + 1 + (IF k = WindowCap THEN spike10
                                  ELSE IF k = WindowCap + 1 THEN spike11
                                  ELSE 0)],
       Low |-> [k \in 0..(n - 1) |->
                 close(k) - 1 - (IF k = WindowCap + 1 THEN dip11 ELSE 0)],
       EMA_50 |-> [k \in 0..(n - 1) |-> ramp(k) + off],
       EMA_200_last |-> ramp(n - 1) + 2 * off,
       ATR_mean |-> AtrMean,
       ATR_last |-> atr_last]

Frames ==
  {MakeFrame(n, labels, slope, spike10, spike11, dip11, jump, off, atr_last) :
     n \in Lengths, labels \in {"position", "timestamp"}, slope \in Slopes,
     spike10 \in Spikes, spike11 \in Spikes \ {2}, dip11 \in Dips,
     jump \in Jumps, off \in EmaOffsets, atr_last \in AtrLasts}

SetMax(S) == CHOOSE x \in S : \A y \in S : y <= x
SetMin(S) == CHOOSE x \in S : \A y \in S : x <= y
Abs(x) == IF x < 0 THEN -x ELSE x
Sign(x) == IF x > 0 THEN 1 ELSE IF x < 0 THEN -1 ELSE 0

\* Lines 85, 102.
Window(df) == Min(WindowCap, df.bars \div 2)

\* Mutant: the last bar that counts as interior is one too far to the right.
Boundary_OffByOne(df, index) ==
  index < Window(df) \/ index > df.bars - Window(df)

\* Lines 88, 105: the bar has fewer than `window` bars on one side.
Boundary(df, index) ==
  index < Window(df) \/ index >= df.bars - Window(df)

\* Lines 92, 109: df.loc[index-window : index+window, column], a slice by
\* label that includes both ends and stops at the ends of the frame.
Surrounding(df, index, column) ==
  {column[k] : k \in ((index - Window(df))..(index + Window(df)))
                       \cap DOMAIN column}

\* Lines 66, 95, 112: movement > volatility * 1.5.
MovementSignificant(movement, volatility) ==
  movement * VolatilityDen > volatility * VolatilityNum

\* Lines 83-98.
is_swing_high(df, index, volatility) ==
  IF Boundary(df, index) THEN 0
  ELSE LET current_price == df.High[index]
           surrounding_prices == Surrounding(df, index, df.High)
       IN  IF /\ current_price = SetMax(surrounding_prices)
              /\ MovementSignificant(
                   current_price - SetMin(surrounding_prices), volatility)
              /\ current_price > df.EMA_50[index]
           THEN 1 ELSE 0

\* Lines 100-115.
is_swing_low(df, index, volatility) ==
  IF Boundary(df, index) THEN 0
  ELSE LET current_price == df.Low[index]
           surrounding_prices == Surrounding(df, index, df.Low)
       IN  IF /\ current_price = SetMin(surrounding_prices)
              /\ MovementSignificant(
                   SetMax(surrounding_prices) - current_price, volatility)
              /\ current_price < df.EMA_50[index]
           THEN 1 ELSE 0

\* Lines 88, 105 compare row.name with an integer.  For rows labelled by
\* position that is a comparison of integers; for rows labelled by
\* timestamps it raises TypeError, which line 79 catches.
LabelsComparable(df) == df.labels = "position"

\* Lines 60-81 on a concrete frame: None, or the frame with the two columns
\* of labels.
LabelFrame(df) ==
  IF df.bars < MinBars THEN NoDf
  ELSE IF ~LabelsComparable(df) THEN NoDf
  ELSE [frame |-> df,
        Swing_High |-> [k \in DOMAIN df.High |->
                          is_swing_high(df, k, df.ATR_mean)],
        Swing_Low |-> [k \in DOMAIN df.Low |->
                         is_swing_low(df, k, df.ATR_mean)]]

\* Line 164: the sum of np.sign(df['Close'].diff()) up to row k (the first
\* row's difference is NaN and is skipped by the mean).
RECURSIVE SumSigns(_, _)
SumSigns(close, k) ==
  IF k = 0 THEN 0
  ELSE SumSigns(close, k - 1) + Sign(close[k] - close[k - 1])

\* Lines 160-168 and the comparison with the threshold of lines 141, 147:
\*   abs(mean(sign(diff Close)) * sign(diff EMA_50[-1]) * (1 - ATR/Close))
\*     > 0.75
\* multiplied out (the last close is positive).
TrendStrengthExceeds(df) ==
  LET last == df.bars - 1
      price_momentum_sum == SumSigns(df.Close, last)
      ema_momentum == Sign(df.EMA_50[last] - df.EMA_50[last - 1])
  IN  StrengthDen * Abs(price_momentum_sum) * Abs(ema_momentum)
        * Abs(df.Close[last] - df.ATR_last)
      > StrengthNum * last * df.Close[last]

\* Lines 138-142.
uptrend_conditions(df) ==
  LET last == df.bars - 1
  IN  /\ df.Close[last] > df.EMA_50[last]
      /\ df.EMA_50[last] > df.EMA_200_last
      /\ TrendStrengthExceeds(df)

\* Lines 144-148.
downtrend_conditions(df) ==
  LET last == df.bars - 1
  IN  /\ df.Close[last] < df.EMA_50[last]
      /\ df.EMA_50[last] < df.EMA_200_last
      /\ TrendStrengthExceeds(df)

HasLabel(column) == \E k \in DOMAIN column : column[k] = 1

\* The facts of a concrete frame that the cycle branches on.
FrameInput(df) ==
  LET labelled == LabelFrame(df)
  IN  [fetch_error |-> FALSE,
       bars |-> df.bars,
       detect_error |-> df.bars >= MinBars /\ ~LabelsComparable(df),
       swing_highs |-> labelled # NoDf /\ HasLabel(labelled.Swing_High),
       swing_lows |-> labelled # NoDf /\ HasLabel(labelled.Swing_Low),
       trend |-> IF uptrend_conditions(df) THEN "up"
                 ELSE IF downtrend_conditions(df) THEN "down"
                 ELSE "none",
       analyze_error |-> FALSE]

\* Where two monitors run together, and where a clock is kept, the cycles are explored over the inputs
\* that fail at the fetch or give a definite verdict.
ConcurrentInputs ==
  {i \in TickInputs : i.fetch_error \/ i.trend # "none"}

\* The inputs one cycle may meet, and the number of consecutive aborted
\* cycles explored.
CycleInputs ==
  IF analysis.given THEN {FrameInput(analysis.frame)}
  ELSE IF Cardinality(Monitors) > 1 \/ timing.kept THEN ConcurrentInputs
  ELSE TickInputs

ErrorLimit ==
  IF Cardinality(Monitors) > 1 \/ timing.kept \/ analysis.given
  THEN MaxErrorsConcurrent ELSE MaxErrors

\* get_market_data: the frame, or None when anything in it raised.
get_market_data(input) ==
  IF input.fetch_error THEN NoDf ELSE input

\* detect_advanced_swing_points: None for no frame, a short frame, or an
\* exception while labelling; otherwise the labelled frame.
detect_advanced_swing_points(df) ==
  IF df = NoDf THEN NoDf
  ELSE IF df.bars < MinBars THEN NoDf
  ELSE IF df.detect_error THEN NoDf
  ELSE df

\* analyze_advanced_market_structure: a verdict only with a swing high and a
\* swing low present, and never the verdict already held.
analyze_advanced_market_structure(df, previous) ==
  IF df = NoDf THEN None
  ELSE IF df.analyze_error THEN None
  ELSE IF df.swing_highs /\ df.swing_lows
       THEN IF df.trend = "up" /\ previous # UPTREND THEN UPTREND
            ELSE IF df.trend = "down" /\ previous # DOWNTREND THEN DOWNTREND
            ELSE None
       ELSE None

\* The verdict of one cycle: fetch, label, classify.
Classify(input, previous) ==
  analyze_advanced_market_structure(
    detect_advanced_swing_points(get_market_data(input)), previous)

\* Mutant: the check that a state was set before is dropped.
AlertCondition_NoPreviousCheck(previous, current) ==
  /\ current # None
  /\ current # previous

\* run(), lines 198-200: the condition under which a change is announced.
\* `self.previous_structure and ...` is Python truthiness: None is false.
AlertCondition(previous, current) ==
  /\ previous # None
  /\ current # None
  /\ current # previous

\* Mutant: the verdict is stored whether or not it is definite.
NextPrevious_Unconditional(previous, current) == current

\* Mutant: only the first verdict is stored (`if self.previous_structure is
\* None` in place of `if current_structure is not None`).
NextPrevious_OnlyFirst(previous, current) ==
  IF current # None /\ previous = None THEN current ELSE previous

\* Mutant: only an Uptrend verdict is stored.
NextPrevious_OnlyUptrend(previous, current) ==
  IF current = UPTREND THEN current ELSE previous

\* run(), lines 222-223.
NextPrevious(previous, current) ==
  IF current # None THEN current ELSE previous

\* Mutant: the cap is dropped.
BackoffDelay_NoCap(errors) ==
  BackoffBase * (2 ^ (errors - 1))

\* run(), line 237: min(60 * (2 ** (consecutive_errors - 1)), 900).
BackoffDelay(errors) ==
  Min(BackoffBase * (2 ^ (errors - 1)), BackoffCap)


\* --------------------------------------------------------- notifier ----
\* What ''.split(',') style parsing can leave in backup_webhooks: a URL or
\* the empty string (an unset variable gives the one-element list ['']).
PrimaryUrl == "primary"
BackupEntries == {"", "backup"}

RECURSIVE SeqsUpTo(_, _)
SeqsUpTo(S, n) ==
  IF n = 0 THEN {<<>>}
  ELSE LET shorter == SeqsUpTo(S, n - 1)
       IN  shorter \cup {Append(q, x) : q \in shorter, x \in S}

BackupLists == SeqsUpTo(BackupEntries, MaxBackups) \ {<<>>}

\* What one post meets: the request raises (timeout, transport error), or
\* the endpoint answers with a status; a 429 carries the delay it asks for.
Responses ==
  {[raised |-> TRUE, status |-> 0, retry_after |-> 0]}
    \cup {[raised |-> FALSE, status |-> s, retry_after |-> 0] :
            s \in {StatusNoContent, 500}}
    \cup {[raised |-> FALSE, status |-> 429, retry_after |-> 2]}

RateLimited(response) == ~response.raised /\ response.status = 429

\* send_message, line 75.
webhooks_to_try == <<PrimaryUrl>> \o backup_webhooks

\* send_message, lines 77-79: the next position after `index` holding a
\* URL; 0 when the list is exhausted.
NextWebhook(index) ==
  LET later == {j \in (index + 1)..Len(webhooks_to_try) :
                  webhooks_to_try[j] # ""}
  IN  IF later = {} THEN 0
      ELSE CHOOSE j \in later : \A k \in later : j <= k

\* send_message, lines 83-87: the post delivered, the loop breaks.
Delivered(response) ==
  ~response.raised /\ response.status = StatusNoContent

\* Mutant: either channel is enough.
SendReturn_Either(discord, email) == discord \/ email

\* send_message, line 104.
SendReturn(discord, email) == discord /\ email

\* The value send_message returned, as a string ("none": no call returned).
Bool(b) == IF b THEN "True" ELSE "False"


\* ----------------------------------------------------- observations ----
\* The record kept of the polling cycle that ran last.
NoCycle ==
  [ran |-> FALSE,
   input |-> [fetch_error |-> TRUE, bars |-> MinBars, detect_error |-> FALSE,
              swing_highs |-> FALSE, swing_lows |-> FALSE, trend |-> "none",
              analyze_error |-> FALSE],
   previous |-> None, verdict |-> None,
   alert |-> FALSE, sent |-> FALSE, failed |-> FALSE, errors_before |-> 0]

\* The input makes uptrend_conditions true with a swing high and a swing low
\* on record: the classifier's Uptrend case.
UptrendQualifying(input) ==
  /\ ~input.fetch_error /\ input.bars >= MinBars
  /\ ~input.detect_error /\ ~input.analyze_error
  /\ input.swing_highs /\ input.swing_lows /\ input.trend = "up"

NoStreak == [ticks |-> 0, alerts |-> 0, sends |-> 0]

\* A run of uptrend-qualifying cycles begins at a cycle that starts from a
\* set state other than Uptrend, and lasts until a cycle that does not
\* qualify, a cycle aborted by an exception, or a midnight reset.
StreakAfter(st, input, previous, alert, sent, failed) ==
  IF failed \/ ~UptrendQualifying(input) THEN NoStreak
  ELSE IF st.ticks = 0 /\ (previous = None \/ previous = UPTREND) THEN NoStreak
  ELSE [ticks  |-> Min(st.ticks + 1, MaxStreak),
        alerts |-> Min(st.alerts + (IF alert THEN 1 ELSE 0), MaxStreak),
        sends  |-> Min(st.sends + (IF sent THEN 1 ELSE 0), MaxStreak)]

\* ---------------------------------------------------- initial state ----
\* After main() has built the monitors and before any run() has started.
Symbols == {"AAPL"}

InitMonitors(symbols) ==
  /\ enabled \in BOOLEAN
  /\ backup_webhooks \in BackupLists
  /\ previous_structure = [m \in symbols |-> None]
  /\ consecutive_errors = [m \in symbols |-> 0]
  /\ pc = [m \in symbols |-> "start"]
  /\ wait_time = [m \in symbols |-> 0]
  /\ current_structure = [m \in symbols |-> None]
  /\ webhook_index = [m \in symbols |-> 0]
  /\ discord_success = [m \in symbols |-> FALSE]
  /\ attempts = [m \in symbols |-> <<>>]
  /\ email_result = [m \in symbols |-> "none"]
  /\ send_result = [m \in symbols |-> "none"]
  /\ cycle = [m \in symbols |-> NoCycle]
  /\ streak = [m \in symbols |-> NoStreak]
  /\ reset_since_tick = [m \in symbols |-> FALSE]
  /\ last_step = [monitor |-> "", handler |-> "none"]

\* No clock is kept and no concrete frame is given: a cycle draws its input
\* from TickInputs.
NoTiming == [kept |-> FALSE]
NoAnalysis == [given |-> FALSE, ticked |-> FALSE]

InitLoop == InitMonitors(Symbols)

\* No alert since the last reset.  new / previous: the states the latest
\* alert announced; before: the new state of the alert before it.
NoAlert == [new |-> None, previous |-> None, before |-> None]
NoAlerts == [m \in Symbols |-> NoAlert]

Init ==
  /\ InitLoop
  /\ timing = NoTiming
  /\ analysis = NoAnalysis
  /\ alerts = NoAlerts

\* ------------------------------------------------------------ run() ----
\* Mutant: a completed cycle leaves the counter as it is.
ErrorsAfterSuccess_Kept(errors) == errors

\* Line 225.
ErrorsAfterSuccess(errors) == 0

\* Line 229.
ErrorsAfterFailure(errors) == errors + 1

\* Lines 222-226: record a definite verdict, clear the error counter, sleep
\* for the polling interval.
CompleteCycle(m, current) ==
  /\ previous_structure' =
       [previous_structure EXCEPT ![m] = NextPrevious(@, current)]
  /\ consecutive_errors' =
       [consecutive_errors EXCEPT ![m] = ErrorsAfterSuccess(@)]
  /\ pc' = [pc EXCEPT ![m] = "waiting"]
  /\ wait_time' = [wait_time EXCEPT ![m] = PollSeconds]
  /\ current_structure' = [current_structure EXCEPT ![m] = None]

\* Mutant: the handler re-raises, run() ends with the exception.
FailCycle_Exits(m) ==
  /\ consecutive_errors' =
       [consecutive_errors EXCEPT ![m] = ErrorsAfterFailure(@)]
  /\ wait_time' = [wait_time EXCEPT ![m] = 0]
  /\ pc' = [pc EXCEPT ![m] = "done"]
  /\ current_structure' = [current_structure EXCEPT ![m] = None]
  /\ UNCHANGED previous_structure

\* Mutant: the error counter is one number shared by all monitors.
FailCycle_SharedCounter(m) ==
  /\ consecutive_errors' =
       [n \in Monitors |-> ErrorsAfterFailure(consecutive_errors[n])]
  /\ wait_time' =
       [wait_time EXCEPT
          ![m] = BackoffDelay(ErrorsAfterFailure(consecutive_errors[m]))]
  /\ pc' = [pc EXCEPT ![m] = "backoff"]
  /\ current_structure' = [current_structure EXCEPT ![m] = None]
  /\ UNCHANGED previous_structure

\* Lines 228-238: an exception reached the loop's handler.
FailCycle(m) ==
  /\ consecutive_errors' =
       [consecutive_errors EXCEPT ![m] = ErrorsAfterFailure(@)]
  /\ wait_time' =
       [wait_time EXCEPT
          ![m] = BackoffDelay(ErrorsAfterFailure(consecutive_errors[m]))]
  /\ pc' = [pc EXCEPT ![m] = "backoff"]
  /\ current_structure' = [current_structure EXCEPT ![m] = None]
  /\ UNCHANGED previous_structure

\* Line 220 up to the first post of send_message (line 82): the primary
\* webhook is never empty (the constructor refuses it), so it is posted to
\* first.
StartSend(m, current) ==
  /\ pc' = [pc EXCEPT ![m] = "notifying"]
  /\ wait_time' = [wait_time EXCEPT ![m] = 0]
  /\ current_structure' = [current_structure EXCEPT ![m] = current]
  /\ webhook_index' = [webhook_index EXCEPT ![m] = 1]
  /\ discord_success' = [discord_success EXCEPT ![m] = FALSE]
  /\ attempts' = [attempts EXCEPT ![m] = <<>>]
  /\ email_result' = [email_result EXCEPT ![m] = "none"]
  /\ send_result' = [send_result EXCEPT ![m] = "none"]
  /\ UNCHANGED <<previous_structure, consecutive_errors>>

\* A cycle that does not call send_message: nothing of an earlier call is
\* left to observe.
NoSend(m) ==
  /\ webhook_index' = [webhook_index EXCEPT ![m] = 0]
  /\ discord_success' = [discord_success EXCEPT ![m] = FALSE]
  /\ attempts' = [attempts EXCEPT ![m] = <<>>]
  /\ email_result' = [email_result EXCEPT ![m] = "none"]
  /\ send_result' = [send_result EXCEPT ![m] = "none"]

\* One iteration of the loop of run(), lines 193-238, from the end of its
\* sleep to its next await.  `raises`: an exception escapes the statements
\* that announce the change (lines 202-219), the only part of the try body
\* whose exceptions no inner handler absorbs; it reaches line 228.
Tick(m) ==
  /\ pc[m] \in {"start", "waiting", "backoff", "fetching"}
  /\ \E input \in CycleInputs, raises \in BOOLEAN :
       LET previous == previous_structure[m]
           current  == Classify(input, previous)
           alert    == AlertCondition(previous, current)
           failed   == alert /\ raises
           sent     == alert /\ ~raises /\ enabled
       IN  /\ raises => (alert /\ consecutive_errors[m] < ErrorLimit)
           /\ cycle' = [cycle EXCEPT ![m] =
                [ran |-> TRUE, input |-> input, previous |-> previous,
                 verdict |-> current, alert |-> alert, sent |-> sent,
                 failed |-> failed,
                 errors_before |-> consecutive_errors[m]]]
           /\ streak' = [streak EXCEPT ![m] =
                StreakAfter(@, input, previous, alert, sent, failed)]
           /\ reset_since_tick' = [reset_since_tick EXCEPT ![m] = FALSE]
           /\ IF failed
              THEN FailCycle(m) /\ NoSend(m)
              ELSE IF sent
              THEN StartSend(m, current)
              ELSE CompleteCycle(m, current) /\ NoSend(m)
  /\ last_step' = [monitor |-> m, handler |-> "run"]
  /\ UNCHANGED <<enabled, backup_webhooks>>

\* ----------------------------------------------------- send_message ----
\* Mutant: the break after a delivered post is missing.
LoopContinues_NoBreak(response, index) ==
  NextWebhook(index) # 0

\* Mutant: an exception of a post ends the loop over the webhooks.
LoopContinues_StopOnError(response, index) ==
  ~Delivered(response) /\ ~response.raised /\ NextWebhook(index) # 0

\* Mutant: a verdict is recorded only when its alert was delivered.
RecordedAfterSend_OnlyDelivered(current, returned) ==
  IF returned THEN current ELSE None

\* Lines 220-223: the value send_message returns is discarded; the verdict
\* that line 222 tests is the one computed before the send.
RecordedAfterSend(current, returned) == current

\* Lines 83-99: the loop over webhooks_to_try goes on after this response.
LoopContinues(response, index) ==
  ~Delivered(response) /\ NextWebhook(index) # 0

\* The post in flight is answered (lines 82-99).  Either the loop posts to
\* the next webhook, or it ends: the email is sent (line 102, a blocking
\* call), send_message returns (line 104) and run() finishes the cycle
\* (lines 222-226) without another await in between.
PostResponse(m) ==
  /\ pc[m] = "notifying"
  /\ \E response \in Responses, email \in BOOLEAN :
       LET index   == webhook_index[m]
           discord == discord_success[m] \/ Delivered(response)
       IN  /\ attempts' = [attempts EXCEPT ![m] =
                Append(@, [index |-> index, response |-> response])]
           /\ discord_success' = [discord_success EXCEPT ![m] = discord]
           /\ IF LoopContinues(response, index)
              THEN /\ webhook_index' =
                        [webhook_index EXCEPT ![m] = NextWebhook(index)]
                   /\ UNCHANGED <<previous_structure, consecutive_errors, pc,
                                  wait_time, current_structure, email_result,
                                  send_result>>
              ELSE /\ webhook_index' = [webhook_index EXCEPT ![m] = 0]
                   /\ email_result' = [email_result EXCEPT ![m] = Bool(email)]
                   /\ send_result' = [send_result EXCEPT
                        ![m] = Bool(SendReturn(discord, email))]
                   /\ CompleteCycle(m,
                        RecordedAfterSend(current_structure[m],
                                          SendReturn(discord, email)))
  /\ last_step' = [monitor |-> m, handler |-> "run"]
  /\ UNCHANGED <<enabled, backup_webhooks, cycle, streak, reset_since_tick>>

\* Mutant: the reset waits until the polling loop is asleep.
MidnightReset_WhenIdle(m) ==
  /\ pc[m] \in {"waiting", "backoff"}
  /\ previous_structure' = [previous_structure EXCEPT ![m] = None]
  /\ streak' = [streak EXCEPT ![m] = NoStreak]
  /\ reset_since_tick' = [reset_since_tick EXCEPT ![m] = TRUE]
  /\ last_step' = [monitor |-> m, handler |-> "wait_until_next_day"]
  /\ UNCHANGED <<enabled, backup_webhooks, consecutive_errors, pc, wait_time,
                 current_structure, webhook_index, discord_success, attempts,
                 email_result, send_result, cycle>>

\* ----------------------------------------------- wait_until_next_day ----
\* Lines 179-182: the sleep until midnight ends and the state is cleared.
\* The task exists once run() has created it (line 189).
MidnightReset(m) ==
  /\ pc[m] # "start"
  /\ previous_structure' = [previous_structure EXCEPT ![m] = None]
  /\ streak' = [streak EXCEPT ![m] = NoStreak]
  /\ reset_since_tick' = [reset_since_tick EXCEPT ![m] = TRUE]
  /\ last_step' = [monitor |-> m, handler |-> "wait_until_next_day"]
  /\ UNCHANGED <<enabled, backup_webhooks, consecutive_errors, pc, wait_time,
                 current_structure, webhook_index, discord_success, attempts,
                 email_result, send_result, cycle>>

\* The polling loop and the reset task on their own: no clock, no frame.
Untimed == UNCHANGED <<timing, analysis, alerts>>

Next ==
  \/ \E m \in Monitors : Tick(m) /\ Untimed
  \/ \E m \in Monitors : PostResponse(m) /\ Untimed
  \/ \E m \in Monitors : MidnightReset(m) /\ Untimed

Spec == Init /\ [][Next]_vars

\* The same loop with its scheduling: a sleep that has been started ends
\* (asyncio.sleep, lines 226 and 238) and the loop is resumed; a post that
\* has been made is answered or raises (lines 81-99).  Nothing is assumed
\* of the reset task.
Fairness ==
  \A m \in Symbols :
    /\ WF_vars(Tick(m) /\ Untimed)
    /\ WF_vars(PostResponse(m) /\ Untimed)

\* One backup webhook is configured, so a send is up to two posts.
InitLive ==
  /\ Init
  /\ backup_webhooks = <<"backup">>

SpecLive == InitLive /\ [][Next]_vars /\ Fairness

\* ---------------------------------------------------- alert history ----
\* The loop with a record of what it announced.  A cycle alerts when the
\* condition of lines 198-200 held and the announcement was not aborted by
\* an exception (lines 202-220 were passed); the midnight reset starts a new
\* period.
AlertingTick(m) ==
  /\ Tick(m)
  /\ alerts' =
       IF cycle'[m].alert /\ ~cycle'[m].failed
       THEN [alerts EXCEPT ![m] = [new |-> cycle'[m].verdict,
                                   previous |-> cycle'[m].previous,
                                   before |-> alerts[m].new]]
       ELSE alerts

ResetPeriod(m) ==
  /\ MidnightReset(m)
  /\ alerts' = [alerts EXCEPT ![m] = NoAlert]

NextAlerts ==
  \/ \E m \in Monitors : AlertingTick(m) /\ UNCHANGED <<timing, analysis>>
  \/ \E m \in Monitors : PostResponse(m) /\ Untimed
  \/ \E m \in Monitors : ResetPeriod(m) /\ UNCHANGED <<timing, analysis>>

SpecAlerts == InitLive /\ [][NextAlerts]_vars

\* ------------------------------------------------- several monitors ----
\* main(), lines 117-129: one run() per symbol, gathered on one event loop.
\* With more than one coroutine the calls that do not await matter:
\* ticker.history (line 33) is a synchronous call, so from the moment a
\* loop has entered it until it returns the thread of the event loop is
\* held and no other coroutine is resumed.
ConcurrentSymbols == {"AAPL", "MSFT"}

InitConcurrent ==
  /\ InitMonitors(ConcurrentSymbols)
  /\ enabled
  /\ backup_webhooks = <<"">>
  /\ timing = NoTiming
  /\ analysis = NoAnalysis
  /\ alerts = [m \in ConcurrentSymbols |-> NoAlert]

\* No coroutine is inside a blocking call: the event loop can resume one.
EventLoopFree == \A n \in Monitors : pc[n] # "fetching"

\* m's sleep is over (or run() has just been started) and the event loop
\* resumes it: it enters ticker.history.
BeginFetch(m) ==
  /\ EventLoopFree
  /\ pc[m] \in {"start", "waiting", "backoff"}
  /\ pc' = [pc EXCEPT ![m] = "fetching"]
  /\ last_step' = [monitor |-> m, handler |-> "run"]
  /\ UNCHANGED <<enabled, backup_webhooks, previous_structure,
                 consecutive_errors, wait_time, current_structure,
                 webhook_index, discord_success, attempts, email_result,
                 send_result, cycle, streak, reset_since_tick>>

\* ticker.history returns or raises, and the cycle runs on to its next await.
EndFetch(m) ==
  /\ pc[m] = "fetching"
  /\ Tick(m)

\* A response arrives for m's post and the event loop resumes send_message.
ResumeSend(m) ==
  /\ EventLoopFree
  /\ PostResponse(m)

\* Midnight has passed and the event loop resumes m's reset task.
ResumeReset(m) ==
  /\ EventLoopFree
  /\ MidnightReset(m)

NextConcurrent ==
  \/ \E m \in Monitors : BeginFetch(m) /\ Untimed
  \/ \E m \in Monitors : EndFetch(m) /\ Untimed
  \/ \E m \in Monitors : ResumeSend(m) /\ Untimed
  \/ \E m \in Monitors : ResumeReset(m) /\ Untimed

SpecConcurrent == InitConcurrent /\ [][NextConcurrent]_vars


\* ------------------------------------------------------- wall clock ----
\* The loop against a clock.  Every sleep of run() is a multiple of the
\* shortest one (60 s), which is the unit of the clock; the polling interval
\* is 15 units.  timing holds
\*   phase          the clock at the end of the loop's latest step, counted
\*                  from the last boundary of the polling interval
\*   has_series     a fetch has returned a frame before
\*   series_age     units since that frame was fetched, capped at the interval
\*   fresh_at_tick  the latest cycle began with a frame younger than the
\*                  polling interval
\*   contacted      the latest cycle called ticker.history
TimeUnit == BackoffBase
PollUnits == PollSeconds \div TimeUnit
Took == 0..MaxTook

InitTimed ==
  /\ InitLoop
  /\ enabled
  /\ backup_webhooks = <<"">>
  /\ timing \in {[kept |-> TRUE, phase |-> p, has_series |-> FALSE,
                   series_age |-> 0, fresh_at_tick |-> FALSE,
                   contacted |-> FALSE] : p \in 0..(PollUnits - 1)}
  /\ analysis = NoAnalysis
  /\ alerts = NoAlerts

\* get_market_data, lines 31-33: ticker.history is called in every cycle;
\* nothing the loop fetched before is kept or looked at.
ContactsDataSource(has_series, age) == TRUE

\* The sleep of wait_time[m] seconds has ended and the cycle runs to its
\* next await, which takes `took` units.
TimedTick(m) ==
  /\ Tick(m)
  /\ \E took \in Took :
       LET slept == wait_time[m] \div TimeUnit
           age   == Min(timing.series_age + slept, PollUnits)
       IN  timing' =
             [kept |-> TRUE,
              phase |-> (timing.phase + slept + took) % PollUnits,
              has_series |->
                timing.has_series \/ ~cycle'[m].input.fetch_error,
              series_age |->
                IF ~cycle'[m].input.fetch_error THEN took
                ELSE Min(age + took, PollUnits),
              fresh_at_tick |-> timing.has_series /\ age < PollUnits,
              contacted |-> ContactsDataSource(timing.has_series, age)]

\* The answer to the post in flight arrives `took` units after the post.
TimedResponse(m) ==
  /\ PostResponse(m)
  /\ \E took \in Took :
       timing' =
         [timing EXCEPT
            !.phase = (@ + took) % PollUnits,
            !.series_age = Min(@ + took, PollUnits)]

NextTimed ==
  \/ \E m \in Monitors : TimedTick(m) /\ UNCHANGED <<analysis, alerts>>
  \/ \E m \in Monitors : TimedResponse(m) /\ UNCHANGED <<analysis, alerts>>
  \/ \E m \in Monitors : MidnightReset(m) /\ Untimed

SpecTimed == InitTimed /\ [][NextTimed]_vars


\* ------------------------------------------------- cycles on frames ----
\* The loop on concrete data: it is asleep between two cycles, holding any
\* of the three states, notifications are disabled, and the data source
\* returns one of the frames.
InitFrames ==
  /\ enabled = FALSE
  /\ backup_webhooks = <<"">>
  /\ previous_structure \in [Symbols -> {None} \cup Definite]
  /\ consecutive_errors = [m \in Symbols |-> 0]
  /\ pc = [m \in Symbols |-> "waiting"]
  /\ wait_time = [m \in Symbols |-> PollSeconds]
  /\ current_structure = [m \in Symbols |-> None]
  /\ webhook_index = [m \in Symbols |-> 0]
  /\ discord_success = [m \in Symbols |-> FALSE]
  /\ attempts = [m \in Symbols |-> <<>>]
  /\ email_result = [m \in Symbols |-> "none"]
  /\ send_result = [m \in Symbols |-> "none"]
  /\ cycle = [m \in Symbols |-> NoCycle]
  /\ streak = [m \in Symbols |-> NoStreak]
  /\ reset_since_tick = [m \in Symbols |-> FALSE]
  /\ last_step = [monitor |-> "", handler |-> "none"]
  /\ timing = NoTiming
  /\ analysis \in {[given |-> TRUE, ticked |-> FALSE, frame |-> f] :
                     f \in Frames}
  /\ alerts = NoAlerts

\* One cycle on the frame.
FrameTick(m) ==
  /\ Tick(m)
  /\ analysis' = [analysis EXCEPT !.ticked = TRUE]

NextFrames ==
  \/ \E m \in Monitors : FrameTick(m) /\ UNCHANGED <<timing, alerts>>
  \/ \E m \in Monitors : MidnightReset(m) /\ Untimed

SpecFrames == InitFrames /\ [][NextFrames]_vars


\* ================================================================ claims
\* The step just taken was one of m's polling loop (Tick, PostResponse).
LoopStep(m) == last_step' = [monitor |-> m, handler |-> "run"]

\* The step just taken was m's midnight reset.
ResetStep(m) == last_step' = [monitor |-> m, handler |-> "wait_until_next_day"]

\* The position the webhook loop turns to after position `index`, as the
\* state shows it: the next entry of attempts, or the post in flight.
TriedAfter(m, k) ==
  IF k < Len(attempts[m]) THEN attempts[m][k + 1].index
  ELSE IF pc[m] = "notifying" THEN webhook_index[m]
  ELSE 0

\* ---------------------------------------------------------------- C1 ----
\* C1: a cycle that starts with previous_structure None never announces a
\* change: it builds no alert, calls no send and is never suspended in one;
\* a definite verdict of such a cycle is only recorded.  This covers the
\* first classification after start-up and the first after a midnight reset.
C1_UnsetNeverAlerts ==
  \A m \in Monitors :
    (cycle[m].ran /\ cycle[m].previous = None) =>
      /\ ~cycle[m].alert
      /\ ~cycle[m].sent
      /\ pc[m] # "notifying"
      /\ attempts[m] = <<>>
      /\ send_result[m] = "none"
      /\ (cycle[m].verdict # None /\ ~reset_since_tick[m])
           => previous_structure[m] = cycle[m].verdict

\* A cycle that started from None after a reset (failures were on record, so
\* a state had been set before) reached a definite verdict and recorded it,
\* with alerts enabled.
C1_Witness ==
  \E m \in Monitors :
    /\ enabled
    /\ cycle[m].ran /\ cycle[m].previous = None
    /\ cycle[m].errors_before > 0
    /\ cycle[m].verdict = UPTREND
    /\ previous_structure[m] = UPTREND

\* ---------------------------------------------------------------- C2 ----
NoVerdictInput(input) ==
  \/ input.fetch_error
  \/ input.bars < MinBars
  \/ ~input.swing_highs
  \/ ~input.swing_lows

\* C2: a step of the polling loop changes previous_structure only to the
\* definite verdict of the cycle in progress; a cycle without a verdict
\* (fetch failure, too few bars, no swing high or no swing low among the
\* causes) leaves it as it was.
C2_OnlyDefiniteVerdictUpdates ==
  [][\A m \in Monitors :
       LoopStep(m) =>
         /\ NoVerdictInput(cycle'[m].input) => cycle'[m].verdict = None
         /\ cycle'[m].verdict = None
              => previous_structure'[m] = previous_structure[m]
         /\ previous_structure'[m] # previous_structure[m]
              => /\ cycle'[m].verdict \in Definite
                 /\ previous_structure'[m] = cycle'[m].verdict]_vars

\* A cycle whose fetch failed has run from Uptrend and Uptrend is still held.
C2_Witness ==
  \E m \in Monitors :
    /\ cycle[m].ran /\ cycle[m].input.fetch_error
    /\ cycle[m].verdict = None
    /\ cycle[m].previous = UPTREND
    /\ ~reset_since_tick[m]
    /\ previous_structure[m] = UPTREND

\* ---------------------------------------------------------------- C3 ----
\* C3: in a run of uptrend-qualifying cycles that starts from a set state
\* other than Uptrend, with no midnight reset in between, exactly one alert
\* has been built from the first cycle on; with the channel enabled it was
\* sent once, with the channel disabled never.
C3_AntiChatter ==
  \A m \in Monitors :
    streak[m].ticks >= 1 =>
      /\ streak[m].alerts = 1
      /\ streak[m].sends = (IF enabled THEN 1 ELSE 0)

\* Three uptrend-qualifying cycles in a row, one alert, sent once.
C3_Witness ==
  \E m \in Monitors :
    /\ enabled
    /\ streak[m].ticks >= 3
    /\ streak[m].alerts = 1
    /\ streak[m].sends = 1
    /\ previous_structure[m] = UPTREND

StageFailed(input) ==
  input.fetch_error \/ input.detect_error \/ input.analyze_error

\* C5: after a cycle in which the fetch, the swing detection or the
\* classification failed, the error counter is one higher than before and
\* the loop sleeps for the backoff delay, not for the polling interval.
C5_StageFailureBacksOff ==
  \A m \in Monitors :
    (cycle[m].ran /\ StageFailed(cycle[m].input)) =>
      /\ pc[m] = "backoff"
      /\ consecutive_errors[m] = cycle[m].errors_before + 1
      /\ wait_time[m] = Min(60 * (2 ^ (consecutive_errors[m] - 1)), 900)

\* ---------------------------------------------------------------- C6 ----
\* The delays the specification lists for 1..6 consecutive failures.
BackoffTable == <<60, 120, 240, 480, 900, 900>>

\* C6: while the loop sleeps after its n-th consecutive failure the delay is
\* min(60 * 2^(n-1), 900): 60, 120, 240, 480, 900, 900 for n = 1..6 and 900
\* beyond; it never exceeds 900, and a further failure never shortens it.
C6_BackoffSequence ==
  /\ [](\A m \in Monitors :
          pc[m] = "backoff" =>
            /\ consecutive_errors[m] >= 1
            /\ cycle[m].failed
            /\ consecutive_errors[m] = cycle[m].errors_before + 1
            /\ wait_time[m] = (IF consecutive_errors[m] <= 6
                               THEN BackoffTable[consecutive_errors[m]]
                               ELSE 900)
            /\ wait_time[m] <= 900)
  /\ [][\A m \in Monitors :
          (LoopStep(m) /\ pc[m] = "backoff" /\ pc'[m] = "backoff")
            => wait_time'[m] >= wait_time[m]]_vars

\* The sixth failure in a row: the delay has reached the cap.
C6_Witness ==
  \E m \in Monitors :
    /\ pc[m] = "backoff"
    /\ consecutive_errors[m] = 6
    /\ wait_time[m] = 900

\* ---------------------------------------------------------------- C7 ----
\* C7: after a cycle that completed without a failure the counter is zero,
\* whatever it was before; hence a failure that follows a completed cycle is
\* failure number one and waits the base delay of 60 seconds.
C7_SuccessClearsCounter ==
  \A m \in Monitors :
    /\ (cycle[m].ran /\ ~cycle[m].failed /\ pc[m] # "notifying")
         => (consecutive_errors[m] = 0 /\ pc[m] = "waiting"
             /\ wait_time[m] = 900)
    /\ pc[m] = "waiting" => consecutive_errors[m] = 0
    /\ (cycle[m].failed /\ cycle[m].errors_before = 0)
         => (pc[m] = "backoff" /\ consecutive_errors[m] = 1
             /\ wait_time[m] = 60)

\* A cycle completed after three failures in a row and the counter is zero.
C7_Witness ==
  \E m \in Monitors :
    /\ cycle[m].ran /\ ~cycle[m].failed
    /\ cycle[m].errors_before = 3
    /\ pc[m] = "waiting"
    /\ consecutive_errors[m] = 0

\* ---------------------------------------------------------------- C8 ----
\* The positions of webhooks_to_try that hold a URL.
Configured == {j \in 1..Len(webhooks_to_try) : webhooks_to_try[j] # ""}

\* C8: within one send the posts go to the primary first and then to the
\* configured backups in list order, none skipped and none repeated; every
\* post but the last failed, so an endpoint is tried only after all earlier
\* ones failed, and a delivered post is the last one of the send.
C8_PriorityOrderStopAtSuccess ==
  \A m \in Monitors :
    LET log == attempts[m]
    IN  /\ \A k \in 1..Len(log) : log[k].index \in Configured
        /\ Len(log) >= 1 => log[1].index = 1
        /\ \A k \in 1..(Len(log) - 1) :
             /\ ~Delivered(log[k].response)
             /\ log[k].index < log[k + 1].index
             /\ \A j \in (log[k].index + 1)..(log[k + 1].index - 1) :
                  j \notin Configured
        /\ pc[m] = "notifying" =>
             /\ \A k \in 1..Len(log) : ~Delivered(log[k].response)
             /\ webhook_index[m] \in Configured
             /\ \A k \in 1..Len(log) : log[k].index < webhook_index[m]
             /\ \A j \in 1..(webhook_index[m] - 1) :
                  j \in Configured => \E k \in 1..Len(log) : log[k].index = j
        /\ (Len(log) >= 1 /\ Delivered(log[Len(log)].response))
             => (pc[m] # "notifying" /\ send_result[m] # "none")

\* The primary and the first backup failed, the second backup delivered, and
\* the send is over.
C8_Witness ==
  \E m \in Monitors :
    /\ Len(attempts[m]) = 3
    /\ attempts[m][1].index = 1 /\ ~Delivered(attempts[m][1].response)
    /\ attempts[m][2].index = 2 /\ ~Delivered(attempts[m][2].response)
    /\ attempts[m][3].index = 3 /\ Delivered(attempts[m][3].response)
    /\ pc[m] = "waiting"

\* ---------------------------------------------------------------- C9 ----
\* C9: a post answered 'rate limited' is followed by another post to the
\* same endpoint (the retry after the suggested delay); the send neither
\* moves on to the next endpoint nor ends on that answer.
C9_RateLimitedIsRetried ==
  \A m \in Monitors :
    LET log == attempts[m]
    IN  \A k \in 1..Len(log) :
          RateLimited(log[k].response) =>
            IF k < Len(log)
            THEN log[k + 1].index = log[k].index
            ELSE pc[m] = "notifying" /\ webhook_index[m] = log[k].index

\* --------------------------------------------------------------- C10 ----
\* Some post of the send delivered.
SomeDelivered(log) == \E k \in 1..Len(log) : Delivered(log[k].response)

\* C10 as claimed: a send in which some webhook delivered returns true, and a
\* send that returns false has tried every configured webhook in vain.
C10_AnyDeliveryReturnsTrue ==
  \A m \in Monitors :
    send_result[m] # "none" =>
      /\ SomeDelivered(attempts[m]) => send_result[m] = "True"
      /\ send_result[m] = "False" =>
           /\ ~SomeDelivered(attempts[m])
           /\ {attempts[m][k].index : k \in 1..Len(attempts[m])} = Configured

\* C10 as amended: send returns true exactly when some webhook delivered and
\* the email, which is sent in every send, was accepted too; when no webhook
\* delivered, every configured webhook was tried.
C10_ReturnsTrueIffWebhookAndEmail ==
  \A m \in Monitors :
    send_result[m] # "none" =>
      /\ email_result[m] # "none"
      /\ send_result[m] = "True" <=>
           (SomeDelivered(attempts[m]) /\ email_result[m] = "True")
      /\ ~SomeDelivered(attempts[m]) =>
           {attempts[m][k].index : k \in 1..Len(attempts[m])} = Configured

\* The primary webhook delivered, the email failed, and send returned false.
C10_Witness ==
  \E m \in Monitors :
    /\ send_result[m] = "False"
    /\ email_result[m] = "False"
    /\ Len(attempts[m]) = 1
    /\ Delivered(attempts[m][1].response)

\* --------------------------------------------------------------- C11 ----
\* C11: a post that raises (timeout, transport error) is the failure of that
\* webhook only: the loop turns to the next configured webhook, and after
\* the last one to the email; a raising email is a failed email.  Nothing of
\* it reaches the handler of run(): while the send is under way the error
\* counter is the one the cycle started with, and once it has returned the
\* cycle has completed, the counter is 0 and the wait is the polling interval.
C11_ChannelFailureIsContained ==
  \A m \in Monitors :
    /\ \A k \in 1..Len(attempts[m]) :
         attempts[m][k].response.raised =>
           /\ TriedAfter(m, k) = NextWebhook(attempts[m][k].index)
           /\ (NextWebhook(attempts[m][k].index) = 0) =>
                (email_result[m] # "none")
    /\ (pc[m] = "notifying") =>
         (~cycle[m].failed /\ consecutive_errors[m] = cycle[m].errors_before)
    /\ (send_result[m] # "none") =>
         /\ ~cycle[m].failed
         /\ pc[m] = "waiting"
         /\ consecutive_errors[m] = 0
         /\ wait_time[m] = PollSeconds

\* A send whose first post raised, whose second post was made, and whose
\* email raised too, has returned and the cycle completed.
C11_Witness ==
  \E m \in Monitors :
    /\ Len(attempts[m]) = 2
    /\ attempts[m][1].response.raised
    /\ email_result[m] = "False"
    /\ send_result[m] = "False"
    /\ pc[m] = "waiting"
    /\ consecutive_errors[m] = 0

\* --------------------------------------------------------------- C12 ----
\* C12: when the send of a cycle whose verdict is Uptrend returns false with
\* no webhook delivered and the email failed, the same step still records
\* Uptrend as the state, leaves the error counter at 0 and puts the loop to
\* sleep for the polling interval.
C12_FailedSendStillRecords ==
  [][\A m \in Monitors :
       (/\ LoopStep(m)
        /\ pc[m] = "notifying"
        /\ cycle[m].verdict = UPTREND
        /\ send_result'[m] = "False"
        /\ ~discord_success'[m]
        /\ email_result'[m] = "False")
       => /\ previous_structure'[m] = UPTREND
          /\ consecutive_errors'[m] = 0
          /\ pc'[m] = "waiting"
          /\ wait_time'[m] = PollSeconds]_vars

C12_Witness ==
  \E m \in Monitors :
    /\ cycle[m].alert /\ cycle[m].verdict = UPTREND
    /\ send_result[m] = "False"
    /\ ~discord_success[m]
    /\ email_result[m] = "False"
    /\ previous_structure[m] = UPTREND
    /\ pc[m] = "waiting"

\* --------------------------------------------------------------- C13 ----
\* C13: with two monitors running, no step of one of them (a fetch that
\* fails, a cycle aborted by an exception, a post that raises, a failed
\* email, or any other step of its loop or of its reset task) changes the
\* other's recorded state, error counter, wait, or position in its loop.
C13_LoopIsolation ==
  [][\A m \in Monitors, n \in Monitors :
       (m # n /\ last_step'.monitor = m)
       => /\ previous_structure'[n] = previous_structure[n]
          /\ consecutive_errors'[n] = consecutive_errors[n]
          /\ pc'[n] = pc[n]
          /\ wait_time'[n] = wait_time[n]]_vars

\* One monitor's cycle has just been aborted by an exception while the
\* other is in the middle of a send, holding a state and a clear counter.
C13_Witness ==
  \E m \in Monitors, n \in Monitors :
    /\ m # n
    /\ last_step = [monitor |-> m, handler |-> "run"]
    /\ cycle[m].failed /\ pc[m] = "backoff" /\ consecutive_errors[m] = 1
    /\ pc[n] = "notifying"
    /\ previous_structure[n] \in Definite
    /\ consecutive_errors[n] = 0

\* --------------------------------------------------------------- C14 ----
\* The event loop can resume n's polling loop / n's reset task now.
LoopCanStep(n) == ENABLED (BeginFetch(n) \/ EndFetch(n) \/ ResumeSend(n))
ResetCanStep(n) == ENABLED ResumeReset(n)

\* C14: while one monitor's fetch or send is outstanding, the loop of every
\* other monitor can take a step, and so can every reset task that has been
\* created.
C14_NetworkWaitsSuspend ==
  \A m \in Monitors :
    (pc[m] \in {"fetching", "notifying"}) =>
      /\ \A n \in Monitors \ {m} : LoopCanStep(n)
      /\ \A n \in Monitors : (pc[n] # "start") => ResetCanStep(n)

\* --------------------------------------------------------------- C15 ----
\* C15: a loop asleep after a completed cycle wakes on a boundary of the
\* polling interval: the clock at which its sleep began plus the length of
\* the sleep is a multiple of the interval.
C15_WakesOnBoundary ==
  \A m \in Monitors :
    (timing.kept /\ pc[m] = "waiting") =>
      (timing.phase + wait_time[m] \div TimeUnit) % PollUnits = 0

\* --------------------------------------------------------------- C16 ----
\* C16: a cycle that begins with a frame fetched less than the polling
\* interval ago does not call the data source.
C16_FreshSeriesIsReused ==
  (timing.kept /\ timing.fresh_at_tick) => ~timing.contacted

\* ------------------------------------------------- C17 .. C20: frames ----
\* The bars the detector labelled swing high / swing low in a frame; none
\* when it returned None.
SwingHighBars(df) ==
  IF LabelFrame(df) = NoDf THEN {}
  ELSE {k \in DOMAIN df.High : LabelFrame(df).Swing_High[k] = 1}

SwingLowBars(df) ==
  IF LabelFrame(df) = NoDf THEN {}
  ELSE {k \in DOMAIN df.Low : LabelFrame(df).Swing_Low[k] = 1}

\* The bar has at least w bars on each side.
Interior(df, i, w) == i >= w /\ (df.bars - 1) - i >= w

\* The baseline rule of the specification: H the price of the most recent
\* swing high, L that of the most recent swing low, C the latest close.
BaselineVerdict(df, previous) ==
  IF SwingHighBars(df) = {} \/ SwingLowBars(df) = {} THEN None
  ELSE LET H == df.High[SetMax(SwingHighBars(df))]
           L == df.Low[SetMax(SwingLowBars(df))]
           C == df.Close[df.bars - 1]
       IN  IF C > H /\ previous # UPTREND THEN UPTREND
           ELSE IF C < L /\ previous # DOWNTREND THEN DOWNTREND
           ELSE None

\* A cycle has run on the frame.
Analysed(m) == analysis.given /\ analysis.ticked /\ cycle[m].ran

\* --------------------------------------------------------------- C17 ----
\* C17: after a cycle on a frame, no bar with fewer than w bars on one of
\* its sides is labelled a swing (w the detector's window radius for the
\* frame); a frame of fewer than 2 * 10 + 1 bars has no swing at all, and
\* its cycle completes: no verdict, the error counter at 0, the loop asleep
\* for the polling interval.  A cycle fails only while announcing a change.
C17_ShortSeriesAndBoundaryBars ==
  \A m \in Monitors :
    Analysed(m) =>
      LET df == analysis.frame
          swings == SwingHighBars(df) \cup SwingLowBars(df)
      IN  /\ \A k \in swings : Interior(df, k, Window(df))
          /\ (df.bars < 2 * WindowCap + 1) =>
               /\ swings = {}
               /\ cycle[m].verdict = None
               /\ ~cycle[m].failed
               /\ consecutive_errors[m] = 0
               /\ pc[m] = "waiting"
               /\ wait_time[m] = PollSeconds
          /\ cycle[m].failed => cycle[m].alert

\* A cycle has run on a frame of 20 bars labelled by position whose bar 10
\* carries a spike that is the maximum of the frame, far above the movement
\* threshold and above the average: only its place keeps it from being a
\* swing high.
C17_Witness ==
  \E m \in Monitors :
    /\ Analysed(m)
    /\ analysis.frame.bars = MinBars
    /\ analysis.frame.labels = "position"
    /\ analysis.frame.High[WindowCap] > analysis.frame.High[0] + 2 * AtrMean
    /\ analysis.frame.High[WindowCap] > analysis.frame.EMA_50[WindowCap]
    /\ \A k \in DOMAIN analysis.frame.High :
         analysis.frame.High[k] <= analysis.frame.High[WindowCap]
    /\ pc[m] = "waiting" /\ consecutive_errors[m] = 0

\* --------------------------------------------------------------- C18 ----
\* C18: in a frame a cycle has run on, an interior bar whose high is above
\* the high of every other bar of its window, by more than the movement
\* threshold above the lowest of them, is labelled swing high, and no other
\* bar of its window is.
C18_StrictMaximumIsMarked ==
  \A m \in Monitors :
    Analysed(m) =>
      LET df == analysis.frame
          w  == Window(df)
      IN  \A i \in DOMAIN df.High :
            LET others == (((i - w)..(i + w)) \cap DOMAIN df.High) \ {i}
            IN  (/\ Interior(df, i, w)
                 /\ \A j \in others : df.High[j] < df.High[i]
                 /\ \E j \in others :
                      MovementSignificant(df.High[i] - df.High[j],
                                          df.ATR_mean))
                => /\ i \in SwingHighBars(df)
                   /\ \A j \in others : j \notin SwingHighBars(df)

\* --------------------------------------------------------------- C19 ----
\* C19: the verdict of a cycle on a frame is the verdict of the baseline
\* rule for the frame and the state held when the cycle began.
C19_VerdictIsBaselineRule ==
  \A m \in Monitors :
    Analysed(m) =>
      cycle[m].verdict = BaselineVerdict(analysis.frame, cycle[m].previous)

\* --------------------------------------------------------------- C20 ----
\* C20: the verdict of a cycle on a frame is no verdict or the verdict of
\* the baseline rule.
C20_FilterOnlySuppresses ==
  \A m \in Monitors :
    Analysed(m) =>
      cycle[m].verdict \in
        {None, BaselineVerdict(analysis.frame, cycle[m].previous)}

\* --------------------------------------------------------------- C21 ----
\* The positions of run(): before its first cycle, asleep after a completed
\* cycle, asleep after an aborted one, suspended in a send.
LoopPositions == {"start", "waiting", "backoff", "notifying"}

\* C21: the loop never leaves its positions, so run() neither returns nor
\* raises; with its sleeps and posts ending, it starts a cycle again and
\* again, whatever the cycles before did, and a send under way ends with the
\* loop asleep for its next cycle.
C21_LoopNeverEnds ==
  \A m \in Symbols :
    /\ [](pc[m] \in LoopPositions)
    /\ []<><<Tick(m)>>_vars
    /\ [](pc[m] = "backoff" => <>(cycle[m].errors_before > 0))
    /\ [](pc[m] = "notifying" => <>(pc[m] = "waiting"))

\* A cycle that began after an aborted one has completed, and its send had
\* returned false.
C21_Witness ==
  \E m \in Monitors :
    /\ cycle[m].ran /\ cycle[m].errors_before > 0
    /\ cycle[m].sent /\ send_result[m] = "False"
    /\ pc[m] = "waiting"

\* --------------------------------------------------------------- C22 ----
\* C22: once the midnight reset has fired, the state stays unset until a
\* cycle that began after the reset has classified: as long as no cycle has
\* begun since the reset, previous_structure is None, also when the cycle
\* that was suspended in its send at the time of the reset finishes.
C22_ResetSurvivesSend ==
  \A m \in Monitors :
    reset_since_tick[m] => previous_structure[m] = None

\* --------------------------------------------------------------- C23 ----
\* C23: between two midnight resets the latest alert announced a new state
\* different from its previous state, and if an alert came before it in the
\* period, its previous state is the new state of that alert, so the two do
\* not announce the same new state.
C23_AlertsAlternate ==
  \A m \in Monitors :
    (alerts[m].new # None) =>
      /\ alerts[m].new # alerts[m].previous
      /\ (alerts[m].before # None) =>
           /\ alerts[m].previous = alerts[m].before
           /\ alerts[m].new # alerts[m].before

\* Two alerts in one period: to Downtrend, then back to Uptrend.
C23_Witness ==
  \E m \in Monitors :
    /\ alerts[m].before = DOWNTREND
    /\ alerts[m].previous = DOWNTREND
    /\ alerts[m].new = UPTREND

====
